---- MODULE Spec2Model ----
(***************************************************************************)
(* MemorySystem (src/src/core/memory_system.py): the SQLite tables         *)
(* conversations, knowledge and user_preferences, the TF-IDF vectorizer    *)
(* held in memory and pickled to vectorizer.pkl, and the public methods    *)
(* that read and write them.  One action per method call; a call is        *)
(* taken as a whole, including the refit and the pickle dump that          *)
(* save_conversation performs before it returns.  For callers with         *)
(* threads, save_conversation is also given in the steps another thread    *)
(* can come between.                                                       *)
(*                                                                         *)
(* Numbers.  Python floats are modelled by exact fixed-point integers:     *)
(* a preference strength is counted in tenths (10 is 1.0), a confidence    *)
(* in units of 1/ConfUnit.  TF-IDF weights are tf * idf with idf rounded   *)
(* to quarters; the L2 normalisation of TfidfVectorizer.transform is left  *)
(* out of the stored vector because cosine_similarity divides by both      *)
(* norms itself, so the similarity is the same and a zero vector stays     *)
(* zero.  A similarity is kept as dot, |q|^2, |e|^2 and the units in the   *)
(* last place by which binary64 rounding moves the quotient off 1.         *)
(*                                                                         *)
(* Time.  The clock is sampled at whole units; calls made on the same      *)
(* sample get the same CURRENT_TIMESTAMP, as calls within one second do.   *)
(***************************************************************************)
EXTENDS Integers, Sequences, FiniteSets, TLC

VARIABLES
    conversations,     \* table conversations, in rowid order
    knowledge,         \* table knowledge, in rowid order
    user_preferences,  \* table user_preferences, in rowid order
    sqlite_sequence,   \* AUTOINCREMENT counters, one per table
    vectorizer,        \* self.vectorizer
    vectorizer_pkl,    \* the file vectorizer.pkl beside the database
    now,               \* the wall clock
    ret,               \* the last call: its name, arguments and return value
    calls              \* per thread, the save_conversation call it is inside

vars == <<conversations, knowledge, user_preferences, sqlite_sequence,
          vectorizer, vectorizer_pkl, now, ret, calls>>

---------------------------------------------------------------------------
(* Bounds of the model *)

MaxTurns == 3      \* save_conversation calls
MaxFacts == 2      \* add_knowledge calls
MaxClock == 1      \* clock samples after the first
MaxDecays == 2     \* decays a confidence can take and stay exact

(* Program constants *)

MaxFeatures == 1000    \* TfidfVectorizer(max_features=1000), np.zeros(1000)
WindowSize == 100      \* LIMIT 100
ImportanceFloor == 2   \* importance < 2
DefaultImportance == 1 \* importance: int = 1
StrengthCap == 10      \* min(1.0, ...), in tenths
DecayNum == 9          \* confidence * 0.9, in tenths
ProfileFloor == 3      \* strength > 0.3, in tenths

ConfUnit == 10 ^ (MaxDecays + 1)

None == "None"

---------------------------------------------------------------------------
(* Sequences and sets *)

Range(s) == {s[i] : i \in DOMAIN s}

Min(a, b) == IF a <= b THEN a ELSE b

Max(a, b) == IF a >= b THEN a ELSE b

RECURSIVE SumOver(_, _)
SumOver(f, S) ==
    IF S = {} THEN 0
    ELSE LET x == CHOOSE y \in S : TRUE
         IN  f[x] + SumOver(f, S \ {x})

---------------------------------------------------------------------------
(* Text.  A text is a sequence of lower-case words.  WordOrder lists the   *)
(* words of the model in the order sorted() gives them; "na" stands for    *)
(* the Cyrillic stop word of the vectorizer's stop_words list.             *)

WordOrder == <<"a", "about", "hello", "hi", "is", "mascot", "me",
               "penguin", "tell", "there", "tux", "what", "na">>

ShortWords == {"a"}     \* not matched by token_pattern (?u)\b\w\w+\b

StopWords == {"na"}

Tokenize(text) ==
    SelectSeq(text, LAMBDA w : w \notin ShortWords /\ w \notin StopWords)

TermCount(tokens, term) == Cardinality({i \in DOMAIN tokens : tokens[i] = term})

CombinedText(user_message, ai_response) == user_message \o ai_response

---------------------------------------------------------------------------
(* TfidfVectorizer.  A fitted vectorizer holds vocabulary_, the terms in   *)
(* sorted order (a term's place is its feature index), and idf_.           *)

Unfitted == [fitted |-> FALSE, vocabulary |-> <<>>, idf |-> <<>>]

NoFile == [exists |-> FALSE, content |-> Unfitted]

(* round(4 * (ln((1 + n) / (1 + df)) + 1)): smooth_idf, n documents, df of *)
(* them holding the term.                                                  *)
IdfTable ==
    << <<4>>,
       <<6, 4>>,
       <<7, 5, 4>>,
       <<8, 6, 5, 4>>,
       <<8, 7, 6, 5, 4>>,
       <<9, 7, 6, 5, 5, 4>>,
       <<10, 8, 7, 6, 5, 5, 4>> >>

Idf(n, df) == IdfTable[n][df]

DocFreq(docs, term) ==
    Cardinality({i \in DOMAIN docs : \E j \in DOMAIN docs[i] : docs[i][j] = term})

TotalCount(docs, term) ==
    SumOver([i \in DOMAIN docs |-> TermCount(docs[i], term)], DOMAIN docs)

(* max_features: the terms kept are the MaxFeatures most frequent ones. *)
LimitFeatures(docs, terms) ==
    IF Cardinality(terms) <= MaxFeatures THEN terms
    ELSE CHOOSE S \in SUBSET terms :
            /\ Cardinality(S) = MaxFeatures
            /\ \A a \in S, b \in terms \ S :
                  TotalCount(docs, a) >= TotalCount(docs, b)

(* vectorizer.fit(texts): ok is FALSE when fit raises ValueError (empty    *)
(* vocabulary: no document holds a token).                                 *)
fit(raw_documents) ==
    LET docs == [i \in DOMAIN raw_documents |-> Tokenize(raw_documents[i])]
        terms == UNION {Range(docs[i]) : i \in DOMAIN docs}
        kept == LimitFeatures(docs, terms)
        vocabulary == SelectSeq(WordOrder, LAMBDA w : w \in kept)
    IN  IF terms = {}
        THEN [ok |-> FALSE, vectorizer |-> Unfitted]
        ELSE [ok |-> TRUE,
              vectorizer |->
                [fitted |-> TRUE,
                 vocabulary |-> vocabulary,
                 idf |-> [i \in DOMAIN vocabulary |->
                            Idf(Len(docs), DocFreq(docs, vocabulary[i]))]]]

(* A vector (numpy array) is kept as its length and its non-zero entries, *)
(* by index: entry i is nz[i] for i in DOMAIN nz and 0 elsewhere.          *)
zeros(n) == [length |-> n, nz |-> <<>>]

(* vectorizer.transform([text]).toarray()[0] of a fitted vectorizer *)
transform(v, text) ==
    LET tokens == Tokenize(text)
        present == {i \in DOMAIN v.vocabulary : TermCount(tokens, v.vocabulary[i]) > 0}
    IN  [length |-> Len(v.vocabulary),
         nz |-> [i \in present |-> TermCount(tokens, v.vocabulary[i]) * v.idf[i]]]

(* _create_embedding: transform raises NotFittedError on a vectorizer that *)
(* is not fitted, or whose idf is not, and ValueError on one whose idf has *)
(* another length than its vocabulary (a fit caught half way); the bare    *)
(* except returns np.zeros(1000).                                          *)
_create_embedding(v, text) ==
    IF v.fitted /\ Len(v.idf) = Len(v.vocabulary)
    THEN transform(v, text)
    ELSE zeros(MaxFeatures)

(* SELECT user_message, ai_response FROM conversations, then the new text *)
texts(rows, text) ==
    [i \in DOMAIN rows |-> CombinedText(rows[i].user_message, rows[i].ai_response)]
        \o <<text>>

---------------------------------------------------------------------------
(* Inputs *)

SessionIds == {"s1"}

HelloTurn == [user_message |-> <<"hello">>, ai_response |-> <<"hi", "there">>]

TuxTurn ==
    [user_message |-> <<"what", "is", "tux">>,
     ai_response |-> <<"tux", "is", "a", "penguin", "mascot">>]

HiTurn == [user_message |-> <<"hi">>, ai_response |-> <<"a">>]

NoTokenTurn == [user_message |-> <<"a">>, ai_response |-> <<"na">>]

Messages == {HelloTurn, TuxTurn, HiTurn, NoTokenTurn}

RetentionMessages == {HelloTurn}

Importances == {1, 2}

TuxQuery == <<"tell", "me", "about", "tux">>

HiQuery == <<"hi">>

Queries == {TuxQuery, HiQuery}

HelloQuery == <<"hello", "hi", "there">>   \* the words of HelloTurn

Limits == {0, 1, 5}

DaysOld == {0, 30}

Facts == {"water boils at 100C"}

Categories == {"science"}

Sources == {"wiki"}

CategoriesOrEmpty == Categories \cup {""}

QueryCategories == {None, "", "science"}

MinConfidences == {5, 9}    \* 0.5, the default, and 0.9, in tenths

ConfidencesInRange == {10, 5}   \* 1.0 and 0.5, in tenths

Confidences == ConfidencesInRange \cup {-10}    \* and -1.0

(* the (user_id, preference_type) pairs update_preference is called with *)
PreferenceKeys ==
    { <<"user1", "likes_code">>, <<"user1", "theme">>, <<"default", "likes_code">> }

PreferenceValues == {"yes", "no"}

Strengths == {3, 6, 10, 15}     \* 0.3, 0.6, 1.0 and 1.5, in tenths

(* user ids get_user_profile is called with: the default, one that is a    *)
(* session id, and one with the character _                                *)
ProfileUsers == {"default", "s1", "s_"}

(* session ids: the one of the other specifications, the same in capitals, *)
(* and one as the terminal UI makes them (session_<n>)                     *)
ProfileSessions == {"s1", "S1", "session_1"}

Topics == {None, "linux"}

---------------------------------------------------------------------------
(* Threads.  MemorySystem takes no lock, so a caller with threads can be   *)
(* inside save_conversation in one thread while another thread calls a     *)
(* method.  A thread inside save_conversation has committed its row        *)
(* ("committed") or is inside vectorizer.fit ("fitting"); before is the    *)
(* vectorizer it found and refit the outcome of its fit.  A thread inside  *)
(* update_preference has made its SELECT ("selected"); existing is what    *)
(* fetchone() gave it, None or the pair (id, strength).                    *)

Threads == {"t1", "t2"}

SavingThread == "t1"     \* the one thread that saves while another reads

NoCall ==
    [pc |-> "idle", args |-> <<>>, text |-> <<>>, before |-> Unfitted,
     refit |-> [ok |-> FALSE, vectorizer |-> Unfitted], existing |-> None]

---------------------------------------------------------------------------
(* __init__ on a fresh data directory: _init_database creates the empty    *)
(* tables and _load_vectorizer finds no vectorizer.pkl.                    *)

Init ==
    /\ conversations = <<>>
    /\ knowledge = <<>>
    /\ user_preferences = <<>>
    /\ sqlite_sequence = [conversations |-> 0, knowledge |-> 0, user_preferences |-> 0]
    /\ vectorizer = Unfitted
    /\ vectorizer_pkl = NoFile
    /\ now = 0
    /\ ret = [op |-> "__init__", args |-> <<>>, value |-> None]
    /\ calls = [t \in Threads |-> NoCall]

(* _load_vectorizer: the vectorizer a new instance holds, the unpickled    *)
(* file if there is one and the TfidfVectorizer of __init__ otherwise.     *)
_load_vectorizer ==
    IF vectorizer_pkl.exists THEN vectorizer_pkl.content ELSE Unfitted

(* A new MemorySystem on the same db_path: the tables are kept (CREATE     *)
(* TABLE IF NOT EXISTS) and _load_vectorizer unpickles the file if any.    *)
__init__ ==
    /\ vectorizer' = _load_vectorizer
    /\ ret' = [op |-> "__init__", args |-> <<>>, value |-> None]
    /\ UNCHANGED <<conversations, knowledge, user_preferences, sqlite_sequence,
                   vectorizer_pkl, now, calls>>

(* The clock moves on. *)
Tick ==
    /\ now < MaxClock
    /\ now' = now + 1
    /\ UNCHANGED <<conversations, knowledge, user_preferences, sqlite_sequence,
                   vectorizer, vectorizer_pkl, ret, calls>>

(* _update_vectorizer with no try of its own: a fit that raises reaches    *)
(* the except clause of save_conversation, which returns False.            *)
ReturnedRefitRaising(committed, refit_ok) == committed /\ refit_ok

(* What save_conversation returns.  return True is reached once the commit *)
(* is done, whatever the refit does, because _update_vectorizer catches    *)
(* its own exceptions; an exception up to the commit reaches the except    *)
(* clause, which returns False.                                            *)
Returned(committed, refit_ok) == committed

(* the id of a new row under INTEGER PRIMARY KEY without AUTOINCREMENT:    *)
(* one more than the largest rowid in the table, 1 for an empty table      *)
NextRowid(rows, seq) ==
    IF rows = <<>> THEN 1
    ELSE 1 + CHOOSE m \in {rows[i].id : i \in DOMAIN rows} :
                 \A i \in DOMAIN rows : rows[i].id <= m

(* id INTEGER PRIMARY KEY AUTOINCREMENT: one more than the largest id the  *)
(* table ever held, which sqlite_sequence keeps                            *)
NextId(rows, seq) == seq + 1

(* a refit that recomputes the embedding of every stored turn under the    *)
(* vectorizer it has fitted                                                *)
RowsReembedded(rows, refit) ==
    IF refit.ok
    THEN [i \in DOMAIN rows |->
            [rows[i] EXCEPT !.embedding =
                _create_embedding(refit.vectorizer,
                                  CombinedText(rows[i].user_message, rows[i].ai_response))]]
    ELSE rows

(* The table conversations after _update_vectorizer: its one statement is  *)
(* a SELECT, so the rows are as the INSERT left them.                      *)
RowsAfterRefit(rows, refit) == rows

(* the embedding made after _update_vectorizer, under the refitted         *)
(* vectorizer when the fit succeeds                                        *)
StoredEmbeddingAfterRefit(before, refit, text) ==
    IF refit.ok THEN _create_embedding(refit.vectorizer, text)
    ELSE _create_embedding(before, text)

(* The embedding save_conversation stores: line 90 makes it before the     *)
(* INSERT and before _update_vectorizer, under the vectorizer as the call  *)
(* found it.                                                               *)
StoredEmbedding(before, refit, text) == _create_embedding(before, text)

(* save_conversation.  The embedding is made with the vectorizer as it is  *)
(* on entry, the row is inserted and committed, and _update_vectorizer     *)
(* refits on every stored text plus the new text once more and dumps the   *)
(* pickle.  When fit raises, _update_vectorizer prints and returns: the    *)
(* pickle is not written, and the vectorizer is left as the library leaves *)
(* it, either as it was or with its idf transformer replaced by an         *)
(* unfitted one, on which transform raises.  When sqlite3 raises (the      *)
(* database is locked, the disk is full) nothing is committed and the      *)
(* refit is not reached.                                                   *)
save_conversation(session_id, msg, topic, importance) ==
    LET combined_text == CombinedText(msg.user_message, msg.ai_response)
        \* the SELECT reads the two message columns of every row, the new one
        \* included
        refit == fit(texts(Append(conversations, msg), combined_text))
        embedding == StoredEmbedding(vectorizer, refit, combined_text)
        id == NextId(conversations, sqlite_sequence.conversations)
        row == [id |-> id,
                session_id |-> session_id,
                user_message |-> msg.user_message,
                ai_response |-> msg.ai_response,
                timestamp |-> now,
                topic |-> topic,
                importance |-> importance,
                embedding |-> embedding]
        rows == Append(conversations, row)
    IN  /\ sqlite_sequence.conversations < MaxTurns
        /\ \/ /\ conversations' = RowsAfterRefit(rows, refit)
              /\ sqlite_sequence' = [sqlite_sequence EXCEPT !.conversations = id]
              /\ IF refit.ok
                 THEN /\ vectorizer' = refit.vectorizer
                      /\ vectorizer_pkl' = [exists |-> TRUE, content |-> refit.vectorizer]
                 ELSE /\ vectorizer' \in {vectorizer, Unfitted}
                      /\ UNCHANGED vectorizer_pkl
              /\ ret' = [op |-> "save_conversation",
                         args |-> <<session_id, msg, topic, importance>>,
                         value |-> Returned(TRUE, refit.ok)]
           \/ /\ ret' = [op |-> "save_conversation",
                         args |-> <<session_id, msg, topic, importance>>,
                         value |-> Returned(FALSE, FALSE)]
              /\ UNCHANGED <<conversations, sqlite_sequence, vectorizer, vectorizer_pkl>>
        /\ UNCHANGED <<knowledge, user_preferences, now, calls>>

---------------------------------------------------------------------------
(* save_conversation as a thread runs it, in the steps another thread can  *)
(* come between: the insert up to its commit, the SELECT and the start of  *)
(* vectorizer.fit, and the end of the fit with the dump of the pickle.     *)

(* The vectorizer while fit runs on it.  scikit-learn, which the project   *)
(* does not pin, replaces the idf transformer by an unfitted one when fit  *)
(* starts (1.2 and later) or keeps the old one until it is refitted        *)
(* (before 1.2); vocabulary_ is assigned once the counts are made, before  *)
(* the idf is fitted.                                                      *)
HalfFitted(before, after) ==
    { [fitted |-> before.fitted, vocabulary |-> before.vocabulary, idf |-> <<>>],
      [fitted |-> TRUE, vocabulary |-> after.vocabulary, idf |-> <<>>],
      [fitted |-> TRUE, vocabulary |-> after.vocabulary, idf |-> before.idf] }

(* Lines 87-101: the embedding under the vectorizer as it is, the INSERT   *)
(* and the commit; when sqlite3 raises, the except clause returns False.   *)
save_conversation_insert(t, session_id, msg, topic, importance) ==
    LET combined_text == CombinedText(msg.user_message, msg.ai_response)
        id == NextId(conversations, sqlite_sequence.conversations)
        row == [id |-> id,
                session_id |-> session_id,
                user_message |-> msg.user_message,
                ai_response |-> msg.ai_response,
                timestamp |-> now,
                topic |-> topic,
                importance |-> importance,
                embedding |-> _create_embedding(vectorizer, combined_text)]
    IN  /\ calls[t].pc = "idle"
        /\ sqlite_sequence.conversations < MaxTurns
        /\ \/ /\ conversations' = Append(conversations, row)
              /\ sqlite_sequence' = [sqlite_sequence EXCEPT !.conversations = id]
              /\ calls' = [calls EXCEPT ![t] =
                             [NoCall EXCEPT !.pc = "committed",
                                            !.args = <<session_id, msg, topic, importance>>,
                                            !.text = combined_text]]
              /\ UNCHANGED ret
           \/ /\ ret' = [op |-> "save_conversation",
                         args |-> <<session_id, msg, topic, importance>>,
                         value |-> Returned(FALSE, FALSE)]
              /\ UNCHANGED <<conversations, sqlite_sequence, calls>>
        /\ UNCHANGED <<knowledge, user_preferences, vectorizer, vectorizer_pkl, now>>

(* Lines 124-137: the SELECT of every stored text, the new text appended,  *)
(* and fit entered.  A fit that raises is caught here and the call returns *)
(* True; otherwise the vectorizer is half way until the fit ends.          *)
_update_vectorizer_fit(t) ==
    LET refit == fit(texts(conversations, calls[t].text))
    IN  /\ calls[t].pc = "committed"
        /\ IF refit.ok
           THEN /\ vectorizer' \in HalfFitted(vectorizer, refit.vectorizer)
                /\ calls' = [calls EXCEPT ![t].pc = "fitting",
                                          ![t].before = vectorizer,
                                          ![t].refit = refit]
                /\ UNCHANGED ret
           ELSE /\ vectorizer' \in {vectorizer, Unfitted}
                /\ calls' = [calls EXCEPT ![t] = NoCall]
                /\ ret' = [op |-> "save_conversation",
                           args |-> calls[t].args,
                           value |-> Returned(TRUE, FALSE)]
        /\ UNCHANGED <<conversations, knowledge, user_preferences, sqlite_sequence,
                       vectorizer_pkl, now>>

(* Lines 137-138 and 106: fit ends, _save_vectorizer dumps the pickle and  *)
(* save_conversation returns True.                                         *)
_update_vectorizer_save(t) ==
    /\ calls[t].pc = "fitting"
    /\ vectorizer' = calls[t].refit.vectorizer
    /\ vectorizer_pkl' = [exists |-> TRUE, content |-> calls[t].refit.vectorizer]
    /\ calls' = [calls EXCEPT ![t] = NoCall]
    /\ ret' = [op |-> "save_conversation",
               args |-> calls[t].args,
               value |-> Returned(TRUE, TRUE)]
    /\ UNCHANGED <<conversations, knowledge, user_preferences, sqlite_sequence, now>>

---------------------------------------------------------------------------
(* get_relevant_context *)

(* The dot product and the two squared norms of two vectors of one length *)
Products(q, e) ==
    LET both == DOMAIN q.nz \cap DOMAIN e.nz
    IN  [dot |-> SumOver([i \in both |-> q.nz[i] * e.nz[i]], both),
         qq |-> SumOver([i \in DOMAIN q.nz |-> q.nz[i] * q.nz[i]], DOMAIN q.nz),
         ee |-> SumOver([i \in DOMAIN e.nz |-> e.nz[i] * e.nz[i]], DOMAIN e.nz)]

(* the two vectors are not zero and point the same way: the cosine is 1 *)
Parallel(p) == p.dot > 0 /\ p.dot * p.dot = p.qq * p.ee

(* every non-zero entry is tf 1 times idf 1.0 (4 quarters), the idf of a   *)
(* term every document holds: ln(1) + 1                                    *)
UnitWeights(x) == \A i \in DOMAIN x.nz : x.nz[i] = 4

(* What binary64 arithmetic makes of a cosine that is 1, in units of       *)
(* 2^-52 above 1.0; blas is the outcome where it depends on the weights    *)
(* and on the order and fusing of the library's sums.  One non-zero entry  *)
(* x gives x / sqrt(x * x) = 1.0 and 1.0 * 1.0 = 1.0.  Two or three        *)
(* entries of weight 1.0 give 1.0000000000000002 under every order, fused  *)
(* or not: transform stores 1 / sqrt(3) = 0.5773502691896258 three times,  *)
(* cosine_similarity normalises again by sqrt(1.0000000000000002) = 1.0    *)
(* and the dot product is 3 * 0.33333333333333337 = 1.0000000000000002.    *)
(* Weights are positive, so vectors that are non-zero in different places  *)
(* are not parallel.                                                       *)
Binary64Ulps(q, e, blas) ==
    IF Cardinality(DOMAIN q.nz) < 2 \/ DOMAIN q.nz # DOMAIN e.nz THEN 0
    ELSE IF ~Parallel(Products(q, e)) THEN 0
    ELSE IF UnitWeights(q) /\ UnitWeights(e) /\ Cardinality(DOMAIN q.nz) \in {2, 3}
         THEN 1
    ELSE blas

(* the outcomes of the library's arithmetic a call may meet *)
BlasOutcomes(q, rows) ==
    IF \E i \in DOMAIN rows :
          /\ rows[i].embedding.length = q.length
          /\ Binary64Ulps(q, rows[i].embedding, -1) # Binary64Ulps(q, rows[i].embedding, 1)
    THEN {-1, 0, 1}
    ELSE {0}

(* sklearn cosine_similarity([q], [e])[0][0] of two vectors of one length: *)
(* the value is dot / sqrt(qq * ee), and 0 when a norm is 0; it is kept as *)
(* the exact products and, where the exact value is 1, the ulps the        *)
(* returned double lies above 1.0.                                         *)
cosine_similarity(q, e, blas) ==
    LET p == Products(q, e)
    IN  [dot |-> p.dot, qq |-> p.qq, ee |-> p.ee, ulps |-> Binary64Ulps(q, e, blas)]

NonZero(n) == IF n = 0 THEN 1 ELSE n

(* a > b and a = b for two similarities to the same query: the weights are *)
(* never negative, so the squares compare as the values do, and two values *)
(* that are 1 compare by their ulps.                                       *)
SimGreater(a, b) ==
    \/ a.dot * a.dot * NonZero(b.ee) > b.dot * b.dot * NonZero(a.ee)
    \/ /\ a.dot * a.dot * NonZero(b.ee) = b.dot * b.dot * NonZero(a.ee)
       /\ a.ulps > b.ulps

SimEqual(a, b) ==
    /\ a.dot * a.dot * NonZero(b.ee) = b.dot * b.dot * NonZero(a.ee)
    /\ a.ulps = b.ulps

(* The orders ORDER BY timestamp DESC may return the rows in: rows of one  *)
(* timestamp come in an order SQL does not fix.                            *)
RECURSIVE OrdersByTimestampDesc(_, _)
OrdersByTimestampDesc(rows, S) ==
    IF S = {} THEN {<<>>}
    ELSE UNION { { <<rows[i]>> \o rest : rest \in OrdersByTimestampDesc(rows, S \ {i}) } :
                 i \in {j \in S : \A k \in S : rows[j].timestamp >= rows[k].timestamp} }

(* list.sort(key=similarity) without reverse=True: ascending and stable *)
SortBySimilarityAscending(items) ==
    LET place(i) ==
            Cardinality({j \in DOMAIN items :
                            \/ SimGreater(items[i].similarity, items[j].similarity)
                            \/ /\ j < i
                               /\ SimEqual(items[j].similarity, items[i].similarity)}) + 1
    IN  [k \in DOMAIN items |-> items[CHOOSE i \in DOMAIN items : place(i) = k]]

(* list.sort(key=similarity, reverse=True): descending and stable *)
SortBySimilarity(items) ==
    LET place(i) ==
            Cardinality({j \in DOMAIN items :
                            \/ SimGreater(items[j].similarity, items[i].similarity)
                            \/ /\ j < i
                               /\ SimEqual(items[j].similarity, items[i].similarity)}) + 1
    IN  [k \in DOMAIN items |-> items[CHOOSE i \in DOMAIN items : place(i) = k]]

(* s[:limit] *)
Slice(s, limit) ==
    IF limit >= 0 THEN SubSeq(s, 1, Min(limit, Len(s)))
    ELSE SubSeq(s, 1, Max(0, Len(s) + limit))

(* a cosine_similarity that scores two vectors of different lengths on     *)
(* the entries both have, and never raises                                 *)
IncompatibleDimensionIgnored(query_embedding, fetched) == FALSE

(* cosine_similarity raises ValueError (incompatible dimension) on the     *)
(* first fetched embedding whose length is not the query embedding's.      *)
IncompatibleDimension(query_embedding, fetched) ==
    \E i \in DOMAIN fetched : fetched[i].embedding.length # query_embedding.length

(* get_relevant_context with the query embedded by vectorizer.transform    *)
(* directly and no try/except around it: the NotFittedError of a           *)
(* vectorizer that was never fitted reaches the caller.                    *)
RelevantContextUnguarded(v, fetched, query, limit, blas) ==
    LET query_embedding == transform(v, query)
        scored == [i \in DOMAIN fetched |->
                     [id |-> fetched[i].id,
                      session_id |-> fetched[i].session_id,
                      user_message |-> fetched[i].user_message,
                      ai_response |-> fetched[i].ai_response,
                      topic |-> fetched[i].topic,
                      importance |-> fetched[i].importance,
                      similarity |-> cosine_similarity(query_embedding,
                                                      fetched[i].embedding, blas)]]
    IN  IF v.fitted THEN Slice(SortBySimilarity(scored), limit)
        ELSE <<"NotFittedError">>

(* The rows the loop scores, or raised when cosine_similarity raises       *)
(* ValueError on the first stored embedding whose length differs from the  *)
(* query embedding's; the except clause then returns [].                   *)
RelevantContext(v, fetched, query, limit, blas) ==
    LET query_embedding == _create_embedding(v, query)
        raised == IncompatibleDimension(query_embedding, fetched)
        scored == [i \in DOMAIN fetched |->
                     [id |-> fetched[i].id,
                      session_id |-> fetched[i].session_id,
                      user_message |-> fetched[i].user_message,
                      ai_response |-> fetched[i].ai_response,
                      topic |-> fetched[i].topic,
                      importance |-> fetched[i].importance,
                      similarity |-> cosine_similarity(query_embedding,
                                                      fetched[i].embedding, blas)]]
    IN  IF raised THEN <<>> ELSE Slice(SortBySimilarity(scored), limit)

get_relevant_context(query, limit) ==
    /\ \E selected \in OrdersByTimestampDesc(conversations, DOMAIN conversations) :
          LET fetched == SubSeq(selected, 1, Min(WindowSize, Len(selected)))
          IN  \E blas \in BlasOutcomes(_create_embedding(vectorizer, query), fetched) :
                ret' = [op |-> "get_relevant_context",
                        args |-> <<query, limit>>,
                        value |-> RelevantContext(vectorizer, fetched, query, limit,
                                                  blas)]
    /\ UNCHANGED <<conversations, knowledge, user_preferences, sqlite_sequence,
                   vectorizer, vectorizer_pkl, now, calls>>

---------------------------------------------------------------------------
(* add_knowledge: last_used is left NULL (the empty tuple here; a set      *)
(* last_used is a one-element tuple) and usage_count takes its default.    *)

Null == <<>>

add_knowledge(fact, category, source, confidence) ==
    LET id == sqlite_sequence.knowledge + 1
        row == [id |-> id,
                fact |-> fact,
                category |-> category,
                source |-> source,
                confidence |-> confidence * (ConfUnit \div 10),
                last_used |-> Null,
                usage_count |-> 0,
                created_at |-> now]
    IN  /\ sqlite_sequence.knowledge < MaxFacts
        /\ knowledge' = Append(knowledge, row)
        /\ sqlite_sequence' = [sqlite_sequence EXCEPT !.knowledge = id]
        /\ ret' = [op |-> "add_knowledge",
                   args |-> <<fact, category, source, confidence>>,
                   value |-> None]
        /\ UNCHANGED <<conversations, user_preferences, vectorizer, vectorizer_pkl, now,
                       calls>>

---------------------------------------------------------------------------
(* get_knowledge *)

(* if category: None and the empty string are both false *)
Truthy(category) == category # None /\ category # ""

(* WHERE confidence > ?, the bound left out *)
SelectedStrictly(rows, category, min_confidence) ==
    {i \in DOMAIN rows :
        /\ Truthy(category) => rows[i].category = category
        /\ rows[i].confidence > min_confidence * (ConfUnit \div 10)}

(* WHERE category = ? AND confidence >= ? when category is true, and       *)
(* WHERE confidence >= ? otherwise: the places of the selected rows;       *)
(* min_confidence is in tenths.                                            *)
Selected(rows, category, min_confidence) ==
    {i \in DOMAIN rows :
        /\ Truthy(category) => rows[i].category = category
        /\ rows[i].confidence >= min_confidence * (ConfUnit \div 10)}

(* row a comes before row b under ORDER BY usage_count DESC, confidence DESC *)
RanksBefore(a, b) ==
    \/ a.usage_count > b.usage_count
    \/ a.usage_count = b.usage_count /\ a.confidence > b.confidence

(* The orders the ORDER BY may return the rows of S in: rows equal in both *)
(* columns come in an order SQL does not fix.                              *)
RECURSIVE OrdersByUsageThenConfidence(_, _)
OrdersByUsageThenConfidence(rows, S) ==
    IF S = {} THEN {<<>>}
    ELSE UNION { { <<rows[i]>> \o rest :
                     rest \in OrdersByUsageThenConfidence(rows, S \ {i}) } :
                 i \in {j \in S : \A k \in S : ~RanksBefore(rows[k], rows[j])} }

(* a get_knowledge that records the use of every fact it returns *)
KnowledgeUsed(rows, selected, at) ==
    [i \in DOMAIN rows |->
        IF i \in selected
        THEN [rows[i] EXCEPT !.last_used = <<at>>, !.usage_count = @ + 1]
        ELSE rows[i]]

(* The table knowledge after get_knowledge: its statements are SELECTs and *)
(* it does not commit, so the rows are as they were.                       *)
KnowledgeAfterQuery(rows, selected, at) == rows

get_knowledge(category, min_confidence) ==
    /\ \E fetched \in OrdersByUsageThenConfidence(
                          knowledge, Selected(knowledge, category, min_confidence)) :
          ret' = [op |-> "get_knowledge",
                  args |-> <<category, min_confidence>>,
                  value |-> [k \in DOMAIN fetched |->
                               [fact |-> fetched[k].fact,
                                category |-> fetched[k].category,
                                source |-> fetched[k].source,
                                confidence |-> fetched[k].confidence,
                                last_used |-> fetched[k].last_used,
                                usage_count |-> fetched[k].usage_count]]]
    /\ knowledge' = KnowledgeAfterQuery(
                        knowledge, Selected(knowledge, category, min_confidence), now)
    /\ UNCHANGED <<conversations, user_preferences, sqlite_sequence,
                   vectorizer, vectorizer_pkl, now, calls>>

---------------------------------------------------------------------------
(* update_preference *)

(* the lookup with the key compared against the wrong column *)
MatchingPreferencesWrongColumn(rows, user_id, preference_type) ==
    {i \in DOMAIN rows : /\ rows[i].user_id = user_id
                         /\ rows[i].preference_value = preference_type}

(* SELECT id, strength ... WHERE user_id = ? AND preference_type = ? and   *)
(* fetchone(): the places of the matching rows, the first one is fetched.  *)
MatchingPreferences(rows, user_id, preference_type) ==
    {i \in DOMAIN rows : /\ rows[i].user_id = user_id
                         /\ rows[i].preference_type = preference_type}

(* existing[1] + strength, without the cap *)
NewStrengthUncapped(existing_strength, strength) == existing_strength + strength

(* min(1.0, existing[1] + strength) *)
NewStrength(existing_strength, strength) ==
    Min(StrengthCap, existing_strength + strength)

(* the strength of the row INSERTed for a new key *)
InsertedStrength(strength) == strength

update_preference(preference_type, preference_value, user_id, strength) ==
    LET found == MatchingPreferences(user_preferences, user_id, preference_type)
        existing == CHOOSE i \in found : \A j \in found : i <= j
        id == sqlite_sequence.user_preferences + 1
    IN  /\ IF found # {}
           THEN /\ user_preferences' =
                      [user_preferences EXCEPT
                          ![existing].preference_value = preference_value,
                          ![existing].strength = NewStrength(@, strength)]
                /\ UNCHANGED sqlite_sequence
           ELSE /\ user_preferences' =
                      Append(user_preferences,
                             [id |-> id,
                              user_id |-> user_id,
                              preference_type |-> preference_type,
                              preference_value |-> preference_value,
                              strength |-> InsertedStrength(strength)])
                /\ sqlite_sequence' = [sqlite_sequence EXCEPT !.user_preferences = id]
        /\ ret' = [op |-> "update_preference",
                   args |-> <<preference_type, preference_value, user_id, strength>>,
                   value |-> None]
        /\ UNCHANGED <<conversations, knowledge, vectorizer, vectorizer_pkl, now, calls>>

(* update_preference as a thread runs it, each call on a connection of its *)
(* own.  Lines 231-240: the SELECT and fetchone(); the statement is then   *)
(* finished and holds no lock.                                             *)
update_preference_select(t, preference_type, preference_value, user_id, strength) ==
    LET found == MatchingPreferences(user_preferences, user_id, preference_type)
        first == CHOOSE i \in found : \A j \in found : i <= j
    IN  /\ calls[t].pc = "idle"
        /\ calls' = [calls EXCEPT ![t] =
                       [NoCall EXCEPT
                           !.pc = "selected",
                           !.args = <<preference_type, preference_value, user_id, strength>>,
                           !.existing =
                               IF found = {} THEN None
                               ELSE <<user_preferences[first].id,
                                      user_preferences[first].strength>>]]
        /\ UNCHANGED <<conversations, knowledge, user_preferences, sqlite_sequence,
                       vectorizer, vectorizer_pkl, now, ret>>

(* Lines 242-258: the UPDATE of the row fetched, by its id and from the    *)
(* strength fetched, or the INSERT when none was fetched, and the commit.  *)
update_preference_write(t) ==
    LET preference_type == calls[t].args[1]
        preference_value == calls[t].args[2]
        user_id == calls[t].args[3]
        strength == calls[t].args[4]
        existing == calls[t].existing
        id == sqlite_sequence.user_preferences + 1
    IN  /\ calls[t].pc = "selected"
        /\ IF existing # None
           THEN /\ user_preferences' =
                      [i \in DOMAIN user_preferences |->
                          IF user_preferences[i].id = existing[1]
                          THEN [user_preferences[i] EXCEPT
                                   !.preference_value = preference_value,
                                   !.strength = NewStrength(existing[2], strength)]
                          ELSE user_preferences[i]]
                /\ UNCHANGED sqlite_sequence
           ELSE /\ user_preferences' =
                      Append(user_preferences,
                             [id |-> id,
                              user_id |-> user_id,
                              preference_type |-> preference_type,
                              preference_value |-> preference_value,
                              strength |-> InsertedStrength(strength)])
                /\ sqlite_sequence' = [sqlite_sequence EXCEPT !.user_preferences = id]
        /\ calls' = [calls EXCEPT ![t] = NoCall]
        /\ ret' = [op |-> "update_preference", args |-> calls[t].args, value |-> None]
        /\ UNCHANGED <<conversations, knowledge, vectorizer, vectorizer_pkl, now>>

---------------------------------------------------------------------------
(* get_user_profile *)

(* The characters of the strings that are session ids and user ids here *)
Chars(str) ==
    CASE str = "s1" -> <<"s", "1">>
      [] str = "S1" -> <<"S", "1">>
      [] str = "s_" -> <<"s", "_">>
      [] str = "user1" -> <<"u", "s", "e", "r", "1">>
      [] str = "default" -> <<"d", "e", "f", "a", "u", "l", "t">>
      [] str = "session_1" -> <<"s", "e", "s", "s", "i", "o", "n", "_", "1">>

(* LIKE folds the case of ASCII letters; S is the one capital used here *)
Lower(c) == IF c = "S" THEN "s" ELSE c

(* text LIKE pattern in SQLite: % stands for any run of characters, _ for  *)
(* any one character, and letters match whatever their case.               *)
RECURSIVE LikeMatch(_, _)
LikeMatch(pattern, text) ==
    IF pattern = <<>> THEN text = <<>>
    ELSE IF Head(pattern) = "%"
         THEN \/ LikeMatch(Tail(pattern), text)
              \/ text # <<>> /\ LikeMatch(pattern, Tail(text))
    ELSE /\ text # <<>>
         /\ Head(pattern) = "_" \/ Lower(Head(pattern)) = Lower(Head(text))
         /\ LikeMatch(Tail(pattern), Tail(text))

(* session_id LIKE ? with the parameter f"{user_id}%" *)
Like(session_id, user_id) == LikeMatch(Chars(user_id) \o <<"%">>, Chars(session_id))

(* The orders ORDER BY strength DESC may return the rows in *)
RECURSIVE OrdersByStrengthDesc(_, _)
OrdersByStrengthDesc(rows, S) ==
    IF S = {} THEN {<<>>}
    ELSE UNION { { <<rows[i]>> \o rest : rest \in OrdersByStrengthDesc(rows, S \ {i}) } :
                 i \in {j \in S : \A k \in S : rows[j].strength >= rows[k].strength} }

(* The dict the loop builds, as its items in insertion order: a            *)
(* preference_type met again keeps its place and takes the later row.      *)
RECURSIVE PreferencesOf(_)
PreferencesOf(fetched) ==
    IF fetched = <<>> THEN <<>>
    ELSE LET earlier == PreferencesOf(SubSeq(fetched, 1, Len(fetched) - 1))
             row == fetched[Len(fetched)]
             item == [preference_type |-> row.preference_type,
                      value |-> row.preference_value,
                      strength |-> row.strength]
         IN  IF \E k \in DOMAIN earlier :
                    earlier[k].preference_type = row.preference_type
             THEN [k \in DOMAIN earlier |->
                     IF earlier[k].preference_type = row.preference_type
                     THEN item ELSE earlier[k]]
             ELSE Append(earlier, item)

(* The count of the rows, COUNT(DISTINCT topic), which leaves NULL topics  *)
(* out, and MAX(timestamp), NULL over no row                               *)
Statistics(rows, user_id) ==
    LET matching == {i \in DOMAIN rows : Like(rows[i].session_id, user_id)}
    IN  [total_conversations |-> Cardinality(matching),
         unique_topics |-> Cardinality({rows[i].topic : i \in matching} \ {None}),
         last_active |->
            IF matching = {} THEN None
            ELSE CHOOSE m \in {rows[i].timestamp : i \in matching} :
                    \A i \in matching : rows[i].timestamp <= m]

get_user_profile(user_id) ==
    /\ \E fetched \in OrdersByStrengthDesc(
                          user_preferences,
                          {i \in DOMAIN user_preferences :
                              /\ user_preferences[i].user_id = user_id
                              /\ user_preferences[i].strength > ProfileFloor}) :
          ret' = [op |-> "get_user_profile",
                  args |-> <<user_id>>,
                  value |-> [user_id |-> user_id,
                             preferences |-> PreferencesOf(fetched),
                             statistics |-> Statistics(conversations, user_id)]]
    /\ UNCHANGED <<conversations, knowledge, user_preferences, sqlite_sequence,
                   vectorizer, vectorizer_pkl, now, calls>>

---------------------------------------------------------------------------
(* cleanup_old_memory *)

(* cutoff_date = now - timedelta(days=days_old) *)
CutoffDate(days_old) == now - days_old

(* the DELETE with the importance bound one too low: importance < 1 *)
PurgedBelowDefault(row, cutoff_date) ==
    row.timestamp < cutoff_date /\ row.importance < DefaultImportance

(* DELETE FROM conversations WHERE timestamp < ? AND importance < 2 *)
Purged(row, cutoff_date) ==
    row.timestamp < cutoff_date /\ row.importance < ImportanceFloor

(* the DELETE with the age test alone: WHERE timestamp < ? *)
SweptConversationsByAge(rows, cutoff_date) ==
    SelectSeq(rows, LAMBDA row : ~(row.timestamp < cutoff_date))

(* the table conversations after the DELETE *)
SweptConversations(rows, cutoff_date) ==
    SelectSeq(rows, LAMBDA row : ~Purged(row, cutoff_date))

(* WHERE last_used < ? alone: a NULL last_used compares as not true *)
DecayedWithoutNull(row, cutoff_date) ==
    IF row.last_used = Null THEN FALSE ELSE row.last_used[1] < cutoff_date

(* WHERE last_used < ? OR last_used IS NULL *)
Decayed(row, cutoff_date) ==
    IF row.last_used = Null THEN TRUE ELSE row.last_used[1] < cutoff_date

(* confidence * 0.9 *)
DecayedConfidence(confidence) == (confidence * DecayNum) \div 10

(* the UPDATE written as a DELETE with the same WHERE *)
SweptKnowledgeDeleting(rows, cutoff_date) ==
    SelectSeq(rows, LAMBDA row : ~Decayed(row, cutoff_date))

(* UPDATE knowledge SET confidence = confidence * 0.9 WHERE ...: the table *)
(* after the statement                                                     *)
SweptKnowledge(rows, cutoff_date) ==
    [i \in DOMAIN rows |->
        IF Decayed(rows[i], cutoff_date)
        THEN [rows[i] EXCEPT !.confidence = DecayedConfidence(@)]
        ELSE rows[i]]

(* The call is taken while every confidence it decays stays exact in       *)
(* units of 1/ConfUnit, that is for MaxDecays decays of one fact.          *)
cleanup_old_memory(days_old) ==
    LET cutoff_date == CutoffDate(days_old)
    IN  /\ \A i \in DOMAIN knowledge :
              Decayed(knowledge[i], cutoff_date)
                  => (knowledge[i].confidence * DecayNum) % 10 = 0
        /\ conversations' = SweptConversations(conversations, cutoff_date)
        /\ knowledge' = SweptKnowledge(knowledge, cutoff_date)
        /\ ret' = [op |-> "cleanup_old_memory",
                   args |-> <<days_old, cutoff_date>>,
                   value |-> None]
        /\ UNCHANGED <<user_preferences, sqlite_sequence, vectorizer, vectorizer_pkl, now,
                       calls>>

---------------------------------------------------------------------------
(* Specifications *)

SaveStep(messages, importances) ==
    \E session_id \in SessionIds, msg \in messages, importance \in importances :
        save_conversation(session_id, msg, None, importance)

RetrieveStep ==
    \E query \in Queries, limit \in Limits : get_relevant_context(query, limit)

CleanupStep == \E days_old \in DaysOld : cleanup_old_memory(days_old)

KnowledgeStep(categories, confidences) ==
    \E fact \in Facts, category \in categories, source \in Sources,
       confidence \in confidences :
        add_knowledge(fact, category, source, confidence)

QueryStep ==
    \E category \in QueryCategories, min_confidence \in MinConfidences :
        get_knowledge(category, min_confidence)

PreferenceStep ==
    \E key \in PreferenceKeys, preference_value \in PreferenceValues,
       strength \in Strengths :
        update_preference(key[2], preference_value, key[1], strength)

ProfileStep == \E user_id \in ProfileUsers : get_user_profile(user_id)

Next ==
    \/ __init__
    \/ Tick
    \/ SaveStep(Messages, Importances)
    \/ RetrieveStep
    \/ CleanupStep
    \/ KnowledgeStep(Categories, Confidences)
    \/ QueryStep
    \/ PreferenceStep
    \/ ProfileStep

Spec == Init /\ [][Next]_vars

(* The conversation memory: turns stored with the default importance, as   *)
(* the terminal UI stores them, the vectorizer, retrieval and the sweep.   *)
NextConversations ==
    \/ __init__
    \/ Tick
    \/ SaveStep(Messages, {DefaultImportance})
    \/ RetrieveStep
    \/ CleanupStep

SpecConversations == Init /\ [][NextConversations]_vars

(* One turn said again and again, and asked for in its own words *)
NextRepeatedTurn ==
    \/ __init__
    \/ Tick
    \/ SaveStep(RetentionMessages, {DefaultImportance})
    \/ \E limit \in Limits : get_relevant_context(HelloQuery, limit)
    \/ CleanupStep

SpecRepeatedTurn == Init /\ [][NextRepeatedTurn]_vars

(* A caller with a thread that saves turns while the caller reads: no     *)
(* method of MemorySystem waits for another.                               *)
ConcurrentMessages == {HelloTurn, TuxTurn, NoTokenTurn}

NextConcurrentRead ==
    \/ \E session_id \in SessionIds, msg \in ConcurrentMessages :
          save_conversation_insert(SavingThread, session_id, msg, None, DefaultImportance)
    \/ _update_vectorizer_fit(SavingThread)
    \/ _update_vectorizer_save(SavingThread)
    \/ RetrieveStep

SpecConcurrentRead == Init /\ [][NextConcurrentRead]_vars

(* Two threads that save turns on one MemorySystem *)
TwoTurns == {HelloTurn, TuxTurn}

NextConcurrentSaves ==
    \/ \E t \in Threads, session_id \in SessionIds, msg \in TwoTurns :
          save_conversation_insert(t, session_id, msg, None, DefaultImportance)
    \/ \E t \in Threads : _update_vectorizer_fit(t)
    \/ \E t \in Threads : _update_vectorizer_save(t)

SpecConcurrentSaves == Init /\ [][NextConcurrentSaves]_vars

(* Two threads that call update_preference for one key, with strengths up *)
(* to 1.0                                                                  *)
StrengthsInRange == {3, 6}      \* 0.3 and 0.6, in tenths

NextConcurrentPreferences ==
    \/ \E t \in Threads, preference_value \in PreferenceValues,
          strength \in StrengthsInRange :
          update_preference_select(t, "theme", preference_value, "default", strength)
    \/ \E t \in Threads : update_preference_write(t)

SpecConcurrentPreferences == Init /\ [][NextConcurrentPreferences]_vars

(* The profile: turns of several sessions and topics, the theme of two     *)
(* users, and get_user_profile                                             *)
NextProfile ==
    \/ \E session_id \in ProfileSessions, topic \in Topics :
          save_conversation(session_id, HelloTurn, topic, DefaultImportance)
    \/ \E user_id \in {"default", "s1"}, strength \in StrengthsInRange :
          update_preference("theme", "yes", user_id, strength)
    \/ ProfileStep

SpecProfile == Init /\ [][NextProfile]_vars

(* The sweep over turns of either importance *)
NextRetention ==
    \/ Tick
    \/ SaveStep(RetentionMessages, Importances)
    \/ CleanupStep

SpecRetention == Init /\ [][NextRetention]_vars

(* The knowledge base and the sweep, add_knowledge taking any confidence *)
NextKnowledge ==
    \/ Tick
    \/ KnowledgeStep(Categories, Confidences)
    \/ CleanupStep

SpecKnowledge == Init /\ [][NextKnowledge]_vars

(* The same with every confidence in the range 0..1 of a Fact *)
NextKnowledgeInRange ==
    \/ Tick
    \/ KnowledgeStep(Categories, ConfidencesInRange)
    \/ CleanupStep

SpecKnowledgeInRange == Init /\ [][NextKnowledgeInRange]_vars

(* The knowledge base queried: facts of two categories, one the empty     *)
(* string, the sweep and get_knowledge                                     *)
NextKnowledgeQuery ==
    \/ KnowledgeStep(CategoriesOrEmpty, ConfidencesInRange)
    \/ CleanupStep
    \/ QueryStep

SpecKnowledgeQuery == Init /\ [][NextKnowledgeQuery]_vars

(* Every operation on one store, each with one input or two *)
NextAllOperations ==
    \/ __init__
    \/ Tick
    \/ SaveStep(RetentionMessages, {DefaultImportance})
    \/ get_relevant_context(HiQuery, 5)
    \/ KnowledgeStep(Categories, {10})
    \/ get_knowledge(None, 5)
    \/ update_preference("theme", "yes", "default", 10)
    \/ CleanupStep
    \/ get_user_profile("default")

SpecAllOperations == Init /\ [][NextAllOperations]_vars

(* The turns under every operation that writes no fact, over two turns of *)
(* different words, so that a refit changes what the vectorizer gives a    *)
(* stored text                                                             *)
NextTurnHistory ==
    \/ __init__
    \/ Tick
    \/ SaveStep(TwoTurns, {DefaultImportance})
    \/ get_relevant_context(HiQuery, 5)
    \/ get_knowledge(None, 5)
    \/ update_preference("theme", "yes", "default", 10)
    \/ CleanupStep
    \/ get_user_profile("default")

SpecTurnHistory == Init /\ [][NextTurnHistory]_vars

(* The preference table alone *)
NextPreferences == PreferenceStep

SpecPreferences == Init /\ [][NextPreferences]_vars

---------------------------------------------------------------------------
(* Properties of get_relevant_context *)

Retrieved == ret.op = "get_relevant_context"

RetQuery == ret.args[1]

RetLimit == ret.args[2]

(* the place of the turn with this id in the returned list, 0 if absent *)
PlaceOf(id) ==
    IF \E k \in DOMAIN ret.value : ret.value[k].id = id
    THEN CHOOSE k \in DOMAIN ret.value : ret.value[k].id = id
    ELSE 0

SharesTerm(row, query) ==
    Range(Tokenize(CombinedText(row.user_message, row.ai_response)))
        \cap Range(Tokenize(query)) # {}

(* The scenario: on a memory that holds exactly the turns              *)
(* ("hello", "hi there") and ("what is tux", "tux is a penguin mascot"),   *)
(* stored in that order into an empty memory, the query "tell me about     *)
(* tux" returns the second turn first, with a similarity strictly greater  *)
(* than the first turn's.                                                  *)
C1_TuxScenario ==
    ( /\ Retrieved
      /\ RetQuery = TuxQuery
      /\ RetLimit >= 2
      /\ sqlite_sequence.conversations = 2
      /\ Len(conversations) = 2
      /\ conversations[1].user_message = HelloTurn.user_message
      /\ conversations[1].ai_response = HelloTurn.ai_response
      /\ conversations[2].user_message = TuxTurn.user_message
      /\ conversations[2].ai_response = TuxTurn.ai_response )
    => /\ Len(ret.value) = 2
       /\ ret.value[1].id = 2
       /\ SimGreater(ret.value[1].similarity, ret.value[2].similarity)

(* In general: a stored turn that shares a term with the query is      *)
(* returned and ranks above every stored turn that shares none.            *)
C1_SharedTermRanksAbove ==
    (Retrieved /\ RetLimit >= Len(conversations))
    => \A i \in DOMAIN conversations :
          SharesTerm(conversations[i], RetQuery)
          => /\ PlaceOf(conversations[i].id) > 0
             /\ \A j \in DOMAIN conversations :
                   ~SharesTerm(conversations[j], RetQuery)
                   => /\ PlaceOf(conversations[j].id) > 0
                      /\ PlaceOf(conversations[i].id) < PlaceOf(conversations[j].id)

(* C1: after save_conversation of ("hello", "hi there") and then of        *)
(* ("what is tux", "tux is a penguin mascot") into an empty memory,        *)
(* get_relevant_context("tell me about tux") returns the second turn       *)
(* first, more similar than the first turn; a turn sharing a term with the *)
(* query is returned and ranks above every turn sharing none.              *)
C1_RelevantTurnFirst == C1_TuxScenario /\ C1_SharedTermRanksAbove

StoredTurn(id) ==
    conversations[CHOOSE i \in DOMAIN conversations : conversations[i].id = id]

(* C2: the list get_relevant_context returns is in non-increasing order of *)
(* similarity, and of two results with equal similarity the one with the   *)
(* later timestamp comes first.                                            *)
C2_RankedBySimilarityThenRecency ==
    Retrieved
    => \A i, j \in DOMAIN ret.value :
          i < j
          => /\ ~SimGreater(ret.value[j].similarity, ret.value[i].similarity)
             /\ SimEqual(ret.value[i].similarity, ret.value[j].similarity)
                => StoredTurn(ret.value[i].id).timestamp
                      >= StoredTurn(ret.value[j].id).timestamp

(* a call that returned two turns of different similarity *)
C2_Witness ==
    /\ Retrieved
    /\ Len(ret.value) >= 2
    /\ SimGreater(ret.value[1].similarity, ret.value[2].similarity)

QueryLength == _create_embedding(vectorizer, RetQuery).length

(* C3: when a stored turn's embedding differs in length from the query     *)
(* embedding, get_relevant_context gives that turn similarity 0 and still  *)
(* returns the turns ranked, as many as the limit allows.                  *)
C3_MismatchScoredZero ==
    ( /\ Retrieved
      /\ \E i \in DOMAIN conversations :
            conversations[i].embedding.length # QueryLength )
    => /\ Len(ret.value) = Min(RetLimit, Min(WindowSize, Len(conversations)))
       /\ \A k \in DOMAIN ret.value :
             StoredTurn(ret.value[k].id).embedding.length # QueryLength
             => ret.value[k].similarity.dot = 0

---------------------------------------------------------------------------
(* Properties of update_preference *)

RowsOfKey(rows, user_id, preference_type) ==
    {i \in DOMAIN rows : rows[i].user_id = user_id
                         /\ rows[i].preference_type = preference_type}

(* C4: after update_preference calls with positive strengths, no row of    *)
(* user_preferences has a strength above 1.0, the row a first call creates *)
(* included.  (Every strength of Strengths is positive.)                   *)
C4_StrengthNeverAboveOne ==
    \A i \in DOMAIN user_preferences : user_preferences[i].strength <= 10

(* what one update_preference call does to the row of its key *)
C5_UpdateRule ==
    LET preference_type == ret'.args[1]
        user_id == ret'.args[3]
        strength == ret'.args[4]
        before == RowsOfKey(user_preferences, user_id, preference_type)
        after == RowsOfKey(user_preferences', user_id, preference_type)
    IN  ret'.op = "update_preference"
        => IF before # {}
           THEN /\ after = before
                /\ \A i \in before :
                      user_preferences'[i].strength =
                          Min(10, user_preferences[i].strength + strength)
           ELSE /\ Len(user_preferences') = Len(user_preferences) + 1
                /\ after = {Len(user_preferences')}
                /\ user_preferences'[Len(user_preferences')].strength = strength

(* C5: update_preference(type, value, user_id, strength) sets the strength *)
(* of the existing row of (user_id, type) to min(1.0, previous + strength) *)
(* and otherwise creates a row whose strength is the argument; so 0.6 on a *)
(* row that holds 0.6 gives exactly 1.0.                                   *)
C5_UpsertStrength == [][C5_UpdateRule]_vars

(* an update by 0.6 of the existing ('user1', 'likes_code') row that ended *)
(* at exactly 1.0 (no row is created with 1.0 by a call with 0.6)          *)
C5_Witness ==
    /\ ret.op = "update_preference"
    /\ ret.args[1] = "likes_code"
    /\ ret.args[3] = "user1"
    /\ ret.args[4] = 6
    /\ \E i \in DOMAIN user_preferences :
          /\ user_preferences[i].user_id = "user1"
          /\ user_preferences[i].preference_type = "likes_code"
          /\ user_preferences[i].strength = 10

(* C6: user_preferences holds at most one row for each                     *)
(* (user_id, preference_type) pair.                                        *)
C6_OneRowPerKey ==
    \A i, j \in DOMAIN user_preferences :
        ( /\ user_preferences[i].user_id = user_preferences[j].user_id
          /\ user_preferences[i].preference_type = user_preferences[j].preference_type )
        => i = j

(* every key has a row, and the key last written already had its row (a   *)
(* call that creates a row leaves the strength of its argument)            *)
C6_Witness ==
    /\ ret.op = "update_preference"
    /\ Len(user_preferences) = Cardinality(PreferenceKeys)
    /\ \E i \in DOMAIN user_preferences :
          /\ user_preferences[i].user_id = ret.args[3]
          /\ user_preferences[i].preference_type = ret.args[1]
          /\ user_preferences[i].strength # ret.args[4]

---------------------------------------------------------------------------
(* Properties of cleanup_old_memory *)

(* the step is a cleanup_old_memory call *)
CleanupCalled == ret'.op = "cleanup_old_memory" /\ now' = now

CleanupCutoff == ret'.args[2]

(* a cleanup_old_memory call right after one with the same cutoff *)
C7_SecondRunChangesNothing ==
    ( /\ ret.op = "cleanup_old_memory"
      /\ CleanupCalled
      /\ CleanupCutoff = ret.args[2] )
    => /\ conversations' = conversations
       /\ \A i \in DOMAIN knowledge :
             knowledge'[i].confidence = knowledge[i].confidence

(* C7: a second cleanup_old_memory with the same cutoff as the call before *)
(* it deletes no turn and changes no fact's confidence.                    *)
C7_CleanupIdempotent == [][C7_SecondRunChangesNothing]_vars

(* C8: no step raises the confidence of a stored fact, whatever confidence *)
(* add_knowledge stored it with.                                           *)
C8_ConfidenceNeverRises ==
    [][\A i \in DOMAIN knowledge :
          knowledge'[i].confidence <= knowledge[i].confidence]_vars

(* what one cleanup_old_memory call does to the facts *)
C9_DecayRule ==
    CleanupCalled
    => /\ Len(knowledge') = Len(knowledge)
       /\ \A i \in DOMAIN knowledge :
             IF \/ knowledge[i].last_used = Null
                \/ /\ knowledge[i].last_used # Null
                   /\ knowledge[i].last_used[1] < CleanupCutoff
             THEN knowledge'[i].confidence * 10 = knowledge[i].confidence * 9
             ELSE knowledge'[i].confidence = knowledge[i].confidence

(* C9: cleanup_old_memory multiplies by exactly 0.9 the confidence of      *)
(* every fact whose last_used is null or earlier than the cutoff and       *)
(* leaves every other fact's confidence as it was; it adds and removes no  *)
(* fact.                                                                   *)
C9_DecayByNineTenths == [][C9_DecayRule]_vars

(* the only fact, never used, holds 0.9 after a cleanup whose cutoff is    *)
(* the current time (0.9 is one decay of 1.0 and of no other confidence    *)
(* add_knowledge is called with)                                           *)
C9_Witness ==
    /\ ret.op = "cleanup_old_memory"
    /\ ret.args = <<0, now>>
    /\ Len(knowledge) = 1
    /\ knowledge[1].last_used = Null
    /\ knowledge[1].confidence * 10 = ConfUnit * 9

(* C10: right after cleanup_old_memory no stored turn has both a timestamp *)
(* earlier than the call's cutoff and an importance below 2.               *)
C10_NoOldUnimportantTurn ==
    ret.op = "cleanup_old_memory"
    => \A i \in DOMAIN conversations :
          ~(conversations[i].timestamp < ret.args[2] /\ conversations[i].importance < 2)

(* a call that deleted a turn and kept an older-than-cutoff turn of        *)
(* importance 2                                                            *)
C10_Witness ==
    /\ ret.op = "cleanup_old_memory"
    /\ Len(conversations) < sqlite_sequence.conversations
    /\ \E i \in DOMAIN conversations :
          conversations[i].timestamp < ret.args[2] /\ conversations[i].importance = 2

---------------------------------------------------------------------------
(* Properties of save_conversation and the vectorizer *)

(* the combined text of every stored turn, in rowid order *)
StoredTexts ==
    [i \in DOMAIN conversations |->
        CombinedText(conversations[i].user_message, conversations[i].ai_response)]

(* C11: when save_conversation has returned True, the vectorizer is the    *)
(* fit of the entire stored corpus, the combined text of every stored turn *)
(* with the new one among them, each turn once.  (Stated where that corpus *)
(* holds a token at all, so that a fit of it exists.)                      *)
C11_RefitOverStoredCorpus ==
    ( /\ ret.op = "save_conversation"
      /\ ret.value = TRUE
      /\ fit(StoredTexts).ok )
    => vectorizer = fit(StoredTexts).vectorizer

(* the step is a save_conversation call *)
SaveCalled == ret'.op = "save_conversation" /\ now' = now

SavedText == CombinedText(ret'.args[2].user_message, ret'.args[2].ai_response)

(* a save_conversation call has all of its effects, the row, the refitted  *)
(* vectorizer and the pickle of it, or none of them                        *)
C12_SaveAllOrNothing ==
    SaveCalled
    => LET refit == fit(texts(conversations', SavedText))
       IN  \/ /\ Len(conversations') = Len(conversations) + 1
              /\ refit.ok
              /\ vectorizer' = refit.vectorizer
              /\ vectorizer_pkl' = [exists |-> TRUE, content |-> refit.vectorizer]
           \/ UNCHANGED <<conversations, vectorizer, vectorizer_pkl>>

(* a cleanup_old_memory call purges the turns and decays the facts, or     *)
(* does neither                                                            *)
C12_CleanupAllOrNothing ==
    CleanupCalled
    => \/ /\ \A i \in DOMAIN conversations' : ~Purged(conversations'[i], CleanupCutoff)
          /\ \A i \in DOMAIN knowledge :
                Decayed(knowledge[i], CleanupCutoff)
                => knowledge'[i].confidence * 10 = knowledge[i].confidence * DecayNum
       \/ UNCHANGED <<conversations, knowledge>>

(* C12: every mutating call commits all of its effects or none of them:    *)
(* save_conversation the row together with the refit and the pickle,       *)
(* cleanup_old_memory the purge together with the decay, add_knowledge and *)
(* update_preference their one row.                                        *)
C12_AllOrNothing == [][C12_SaveAllOrNothing /\ C12_CleanupAllOrNothing]_vars

(* the step appended the row of the call's arguments and nothing else *)
SavedRowCommitted ==
    LET last == conversations'[Len(conversations')]
    IN  /\ Len(conversations') = Len(conversations) + 1
        /\ \A i \in DOMAIN conversations : conversations'[i] = conversations[i]
        /\ last.id = sqlite_sequence.conversations + 1
        /\ last.session_id = ret'.args[1]
        /\ last.user_message = ret'.args[2].user_message
        /\ last.ai_response = ret'.args[2].ai_response
        /\ last.topic = ret'.args[3]
        /\ last.importance = ret'.args[4]

(* what one save_conversation call returns *)
C13_SaveRule ==
    SaveCalled
    => /\ ret'.value \in BOOLEAN
       /\ ret'.value = TRUE <=> SavedRowCommitted
       /\ ret'.value = FALSE => conversations' = conversations

(* C13: save_conversation raises nothing and returns True or False; it     *)
(* returns True exactly when the row of the turn was committed to the      *)
(* conversations table, and after False the table is as it was.            *)
C13_TrueIffCommitted == [][C13_SaveRule]_vars

(* a call that returned False and left the one stored turn, of another     *)
(* text, alone in the table                                                *)
C13_Witness ==
    /\ ret.op = "save_conversation"
    /\ ret.value = FALSE
    /\ Len(conversations) = 1
    /\ sqlite_sequence.conversations = 1
    /\ conversations[1].user_message # ret.args[2].user_message

---------------------------------------------------------------------------
(* Properties of the empty memory *)

(* no turn was ever stored and the vectorizer was never fitted *)
NeverStored ==
    /\ sqlite_sequence.conversations = 0
    /\ ~vectorizer.fitted
    /\ ~vectorizer_pkl.exists

(* C14: get_relevant_context on a memory where no turn was ever stored and *)
(* the vectorizer was never fitted returns the empty list, not an error.   *)
C14_EmptyMemoryGivesEmptyList == (Retrieved /\ NeverStored) => ret.value = <<>>

(* the query "tell me about tux" answered by [] on the memory as __init__  *)
(* leaves it                                                               *)
C14_Witness ==
    /\ Retrieved
    /\ RetQuery = TuxQuery
    /\ RetLimit = 5
    /\ NeverStored
    /\ conversations = <<>>
    /\ ret.value = <<>>

---------------------------------------------------------------------------
(* Properties of the knowledge table *)

(* the facts stored before the step are stored after it, each in its place *)
(* and with every column but confidence as it was                          *)
C15_FactsKept ==
    /\ Len(knowledge') >= Len(knowledge)
    /\ \A i \in DOMAIN knowledge :
          knowledge'[i] = [knowledge[i] EXCEPT !.confidence = knowledge'[i].confidence]
    /\ CleanupCalled => Len(knowledge') = Len(knowledge)

(* C15: no operation deletes a row of the knowledge table: the stored      *)
(* facts only grow in number, and cleanup_old_memory changes nothing of a  *)
(* fact but its confidence.                                                *)
C15_FactsNeverDeleted == [][C15_FactsKept]_vars

(* both facts are still stored after a sweep that decayed them *)
C15_Witness ==
    /\ ret.op = "cleanup_old_memory"
    /\ Len(knowledge) = MaxFacts
    /\ \A i \in DOMAIN knowledge : knowledge[i].confidence < ConfUnit

---------------------------------------------------------------------------
(* Properties of vectorizer.pkl *)

(* the lists get_relevant_context may return under the vectorizer v *)
ResultsUnder(v, query, limit) ==
    { RelevantContext(v, SubSeq(selected, 1, Min(WindowSize, Len(selected))),
                      query, limit, blas) :
        selected \in OrdersByTimestampDesc(conversations, DOMAIN conversations),
        blas \in {-1, 0, 1} }

(* C16: when save_conversation has returned True, a new MemorySystem on    *)
(* the same db_path gets from _load_vectorizer a vectorizer equal to the   *)
(* one the saving instance holds, and get_relevant_context gives in the    *)
(* new instance what it gives in the old one.                              *)
C16_ReloadedIndexEqual ==
    (ret.op = "save_conversation" /\ ret.value = TRUE)
    => /\ _load_vectorizer = vectorizer
       /\ \A query \in Queries, limit \in Limits :
             ResultsUnder(_load_vectorizer, query, limit)
                 = ResultsUnder(vectorizer, query, limit)

---------------------------------------------------------------------------
(* Properties of get_knowledge *)

(* the step is a get_knowledge call *)
QueryCalled == ret'.op = "get_knowledge" /\ now' = now

(* the dictionary get_knowledge builds of a row *)
FactOf(row) ==
    [fact |-> row.fact,
     category |-> row.category,
     source |-> row.source,
     confidence |-> row.confidence,
     last_used |-> row.last_used,
     usage_count |-> row.usage_count]

(* The returned list holds the facts at the places I of the table, each    *)
(* once, and nothing else, and is ordered by usage_count descending and    *)
(* then confidence descending.                                             *)
ReturnsExactly(I) ==
    /\ \E f \in [DOMAIN ret'.value -> I] :
          /\ \A a, b \in DOMAIN ret'.value : a # b => f[a] # f[b]
          /\ \A i \in I : \E k \in DOMAIN ret'.value : f[k] = i
          /\ \A k \in DOMAIN ret'.value : ret'.value[k] = FactOf(knowledge[f[k]])
    /\ \A k, l \in DOMAIN ret'.value :
          k < l
          => \/ ret'.value[k].usage_count > ret'.value[l].usage_count
             \/ /\ ret'.value[k].usage_count = ret'.value[l].usage_count
                /\ ret'.value[k].confidence >= ret'.value[l].confidence

(* the facts of confidence >= min_confidence, of the call's category when  *)
(* the call is one that filters by category                                *)
FactsWanted(filters) ==
    {i \in DOMAIN knowledge :
        /\ knowledge[i].confidence * 10 >= ret'.args[2] * ConfUnit
        /\ filters => knowledge[i].category = ret'.args[1]}

(* C17: get_knowledge(category, min_confidence) returns exactly the facts  *)
(* with confidence >= min_confidence, and with the given category whenever *)
(* a category is given (any value but None), ordered by usage_count        *)
(* descending and, for equal usage_count, by confidence descending.        *)
C17_ExactlyTheMatchingFacts ==
    [][QueryCalled => ReturnsExactly(FactsWanted(ret'.args[1] # None))]_vars

(* C17 as amended: the category filters only when it is a non-empty        *)
(* string; called with the empty string, as with None, get_knowledge       *)
(* returns the facts of every category.                                    *)
C17_MatchingFactsOfNonEmptyCategory ==
    [][QueryCalled
       => ReturnsExactly(FactsWanted(ret'.args[1] # None /\ ret'.args[1] # ""))]_vars

(* get_knowledge('science', 0.9) returned the one science fact, which      *)
(* holds exactly 0.9, and not the fact of the other category               *)
C17_Witness ==
    /\ ret.op = "get_knowledge"
    /\ ret.args = <<"science", 9>>
    /\ Len(ret.value) = 1
    /\ ret.value[1].confidence * 10 = 9 * ConfUnit
    /\ Len(knowledge) = 2
    /\ \E i \in DOMAIN knowledge : knowledge[i].category # "science"

---------------------------------------------------------------------------
(* Properties of the similarity values *)

(* C18: every similarity get_relevant_context returns lies in the closed   *)
(* interval [0, 1]: the dot product is not negative, it is at most the     *)
(* product of the norms, and a value that is 1 in exact arithmetic is not  *)
(* returned as a double above 1.0.                                         *)
C18_SimilarityInUnitInterval ==
    Retrieved
    => \A k \in DOMAIN ret.value :
          LET similarity == ret.value[k].similarity
          IN  /\ similarity.dot >= 0
              /\ similarity.dot * similarity.dot
                    <= NonZero(similarity.qq) * NonZero(similarity.ee)
              /\ similarity.ulps <= 0

---------------------------------------------------------------------------
(* Properties of the stored embeddings *)

(* the embedding the vectorizer of this moment gives the text of a turn *)
EmbeddingNow(row) ==
    _create_embedding(vectorizer, CombinedText(row.user_message, row.ai_response))

(* two embeddings are the same vector once each is scaled to norm 1, as    *)
(* transform scales it                                                     *)
SameNormalised(x, y) ==
    /\ x.length = y.length
    /\ DOMAIN x.nz = DOMAIN y.nz
    /\ \A i, j \in DOMAIN x.nz : x.nz[i] * y.nz[j] = x.nz[j] * y.nz[i]

(* C20: every turn get_relevant_context returns with a similarity was      *)
(* scored on an embedding of the same fit as the query embedding, same     *)
(* vocabulary and same dimensionality: its stored embedding is the one the *)
(* vectorizer that embedded the query gives its text.                      *)
C20_ScoredUnderOneFit ==
    Retrieved
    => \A k \in DOMAIN ret.value :
          SameNormalised(StoredTurn(ret.value[k].id).embedding,
                         EmbeddingNow(StoredTurn(ret.value[k].id)))

---------------------------------------------------------------------------
(* a get_relevant_context call made while thread t is inside the fit of    *)
(* its save_conversation call                                              *)
ReadDuringRefit(t) ==
    /\ calls[t].pc = "fitting"
    /\ ret'.op = "get_relevant_context"
    /\ UNCHANGED <<calls, vectorizer>>

(* the vectorizer of this moment embeds the query as v does *)
EmbedsAs(v, query) ==
    SameNormalised(_create_embedding(vectorizer, query), _create_embedding(v, query))

(* C19: a get_relevant_context call that runs while a save_conversation    *)
(* call refits the vectorizer embeds its query as the vectorizer before    *)
(* the refit embeds it or as the refitted vectorizer does, never under a   *)
(* vectorizer caught half way through the fit.                             *)
C19_ReaderSeesWholeIndex ==
    [][\A t \in {SavingThread} :
          ReadDuringRefit(t)
          => \/ EmbedsAs(calls[t].before, ret'.args[1])
             \/ EmbedsAs(calls[t].refit.vectorizer, ret'.args[1])]_vars

---------------------------------------------------------------------------
(* no thread is inside a save_conversation call *)
AllReturned == \A t \in Threads : calls[t].pc = "idle"

(* every token of every stored turn is a term of the vectorizer v *)
FittedOnEveryStoredTurn(v) ==
    \A i \in DOMAIN conversations :
        LET tokens == Tokenize(CombinedText(conversations[i].user_message,
                                            conversations[i].ai_response))
        IN  \A k \in DOMAIN tokens : tokens[k] \in Range(v.vocabulary)

(* C21: once the save_conversation calls of two threads have all returned  *)
(* True, the vectorizer in memory and the one in vectorizer.pkl are fitted *)
(* on a corpus that holds every stored turn: no interleaving leaves a      *)
(* stored turn out of the final fit.                                       *)
C21_FinalFitHoldsBothTurns ==
    (AllReturned /\ conversations # <<>> /\ ret.value = TRUE)
    => /\ FittedOnEveryStoredTurn(vectorizer)
       /\ vectorizer_pkl.exists
       /\ FittedOnEveryStoredTurn(vectorizer_pkl.content)

---------------------------------------------------------------------------
(* the stored turn is one of the WindowSize turns of the latest timestamps *)
InWindow(row) ==
    Cardinality({j \in DOMAIN conversations :
                    conversations[j].timestamp > row.timestamp}) < WindowSize

(* the stored embedding holds no entry other than 0; a NULL embedding is   *)
(* read as np.zeros(1000)                                                  *)
AllZero(embedding) == DOMAIN embedding.nz = {}

(* every returned turn is one of the window *)
C22_OnlyTheWindow ==
    Retrieved => \A k \in DOMAIN ret.value : InWindow(StoredTurn(ret.value[k].id))

(* no more turns than the limit are returned *)
C22_AtMostLimit ==
    (Retrieved /\ RetLimit >= 0) => Len(ret.value) <= RetLimit

(* a turn of the window whose stored embedding is all zero is scored 0:    *)
(* when the limit leaves room for every stored turn it is in the list,     *)
(* with similarity 0                                                       *)
C22_ZeroEmbeddingScoredZero ==
    (Retrieved /\ RetLimit >= Len(conversations))
    => \A i \in DOMAIN conversations :
          (InWindow(conversations[i]) /\ AllZero(conversations[i].embedding))
          => /\ PlaceOf(conversations[i].id) > 0
             /\ ret.value[PlaceOf(conversations[i].id)].similarity.dot = 0

(* C22: get_relevant_context scores only the 100 turns of the latest       *)
(* timestamps, returns at most limit of them for a limit of 0 or more, and *)
(* gives similarity 0 to a turn whose stored embedding is missing or all   *)
(* zero.                                                                   *)
C22_WindowLimitAndZeroScore ==
    C22_OnlyTheWindow /\ C22_AtMostLimit /\ C22_ZeroEmbeddingScoredZero

---------------------------------------------------------------------------
(* what one cleanup_old_memory call leaves of the turns: a turn of         *)
(* importance 2 or more, and a turn whose timestamp is not earlier than    *)
(* the cutoff, is stored after the call as it was before                   *)
C23_KeepRule ==
    CleanupCalled
    => \A i \in DOMAIN conversations :
          (conversations[i].importance >= 2 \/ conversations[i].timestamp >= CleanupCutoff)
          => \E j \in DOMAIN conversations' : conversations'[j] = conversations[i]

(* C23: cleanup_old_memory deletes a turn only if its timestamp is earlier *)
(* than the cutoff and its importance is below 2; every turn of importance *)
(* 2 or more and every turn not older than the cutoff is still stored and  *)
(* unchanged after the call.                                               *)
C23_DeletesOnlyOldUnimportant == [][C23_KeepRule]_vars

(* a call that deleted a turn, kept a turn of importance 2 older than the  *)
(* cutoff and kept a turn of importance 1 not older than it                *)
C23_Witness ==
    /\ ret.op = "cleanup_old_memory"
    /\ Len(conversations) < sqlite_sequence.conversations
    /\ \E i, j \in DOMAIN conversations :
          /\ conversations[i].timestamp < ret.args[2]
          /\ conversations[i].importance >= 2
          /\ conversations[j].timestamp >= ret.args[2]
          /\ conversations[j].importance < 2

---------------------------------------------------------------------------
(* what a step does to the stored turns: a turn that is still stored has   *)
(* every column as before, and a turn is gone only by cleanup_old_memory   *)
C24_TurnRule ==
    \A i \in DOMAIN conversations :
        IF \E j \in DOMAIN conversations' : conversations'[j].id = conversations[i].id
        THEN \E j \in DOMAIN conversations' : conversations'[j] = conversations[i]
        ELSE CleanupCalled

(* C24: once a turn is stored no operation changes any of its columns,     *)
(* session_id, messages, topic, importance, timestamp, embedding; the only *)
(* thing that can happen to it is deletion by cleanup_old_memory, and a    *)
(* later refit does not rewrite its stored embedding.                      *)
C24_StoredTurnImmutable == [][C24_TurnRule]_vars

(* the first turn is still stored after a later save_conversation has      *)
(* refitted the vectorizer, with an embedding that is not the one the      *)
(* refitted vectorizer gives its text                                      *)
C24_Witness ==
    /\ ret.op = "save_conversation"
    /\ sqlite_sequence.conversations >= 2
    /\ vectorizer.fitted
    /\ \E i \in DOMAIN conversations :
          /\ conversations[i].id = 1
          /\ ~SameNormalised(conversations[i].embedding, EmbeddingNow(conversations[i]))

---------------------------------------------------------------------------
(* the step stores a turn *)
TurnStored == SaveCalled /\ ret'.value = TRUE

(* the turn the step stores *)
NewTurn == conversations'[Len(conversations')]

(* What a step does to the ids.  The counter never goes down and no stored *)
(* id is above it, so it bounds every id assigned so far; a new turn gets  *)
(* an id above it and is stored after the turns of smaller ids.            *)
C25_IdRule ==
    /\ sqlite_sequence'.conversations >= sqlite_sequence.conversations
    /\ \A i \in DOMAIN conversations :
          conversations[i].id <= sqlite_sequence.conversations
    /\ \A i, j \in DOMAIN conversations' :
          i < j => conversations'[i].id < conversations'[j].id
    /\ TurnStored => NewTurn.id > sqlite_sequence.conversations

(* C25: turn ids are strictly increasing in storage order and never        *)
(* reused: each newly stored turn gets an id greater than every id         *)
(* assigned before it, the ids of turns purged since included.             *)
C25_IdsIncreaseAndNeverReused == [][C25_IdRule]_vars

(* a turn stored into a table that cleanup_old_memory had emptied, with an *)
(* id above 1                                                              *)
C25_Witness ==
    /\ ret.op = "save_conversation"
    /\ ret.value = TRUE
    /\ Len(conversations) = 1
    /\ conversations[1].id > 1

---------------------------------------------------------------------------
(* C26: get_relevant_context returns a non-empty list only if every turn   *)
(* of the window has a stored embedding of the query embedding's length;   *)
(* one turn whose embedding length differs makes the call return the empty *)
(* list, even when other turns match the query.                            *)
C26_NonEmptyOnlyIfEveryLengthMatches ==
    (Retrieved /\ ret.value # <<>>)
    => \A i \in DOMAIN conversations :
          InWindow(conversations[i]) => conversations[i].embedding.length = QueryLength

(* a call with room for results that returned the empty list although a    *)
(* stored turn of the query embedding's length shares a term with the      *)
(* query, because another stored turn's embedding has another length       *)
C26_Witness ==
    /\ Retrieved
    /\ RetLimit > 0
    /\ ret.value = <<>>
    /\ \E i, j \in DOMAIN conversations :
          /\ conversations[i].embedding.length = QueryLength
          /\ SharesTerm(conversations[i], RetQuery)
          /\ ~AllZero(conversations[i].embedding)
          /\ conversations[j].embedding.length # QueryLength

---------------------------------------------------------------------------
(* the places of the vectorizer's terms that the text holds *)
TermsHeld(v, text) ==
    {k \in DOMAIN v.vocabulary : v.vocabulary[k] \in Range(Tokenize(text))}

(* The embedding a save_conversation step stores, by the vectorizer the    *)
(* call found: one entry per term of its vocabulary, non-zero at the terms *)
(* the text holds; the zero vector of length 1000 when it was not fitted.  *)
C27_EmbeddingRule ==
    TurnStored
    => IF vectorizer.fitted
       THEN /\ NewTurn.embedding.length = Len(vectorizer.vocabulary)
            /\ DOMAIN NewTurn.embedding.nz = TermsHeld(vectorizer, SavedText)
       ELSE NewTurn.embedding = zeros(MaxFeatures)

(* C27: the embedding stored with a turn is computed under the vectorizer  *)
(* as it was before the refit of that turn's own save_conversation call,   *)
(* so it has no entry for a term that turn introduces; the first turn      *)
(* ever stored, the vectorizer never fitted, gets the all-zero vector of   *)
(* length 1000.                                                            *)
C27_EmbeddedBeforeOwnRefit == [][C27_EmbeddingRule]_vars

(* a turn stored under a fitted vectorizer whose refit then added the      *)
(* turn's new terms: the stored embedding is shorter than the vocabulary   *)
C27_Witness ==
    /\ ret.op = "save_conversation"
    /\ ret.value = TRUE
    /\ conversations # <<>>
    /\ conversations[Len(conversations)].id = sqlite_sequence.conversations
    /\ conversations[Len(conversations)].embedding.length # MaxFeatures
    /\ conversations[Len(conversations)].embedding.length < Len(vectorizer.vocabulary)

---------------------------------------------------------------------------
(* What a step does to the use record of the facts and, when it is a       *)
(* cleanup_old_memory call, to their confidence.                           *)
C28_UseRule ==
    /\ \A i \in DOMAIN knowledge' :
          /\ knowledge'[i].last_used = Null
          /\ knowledge'[i].usage_count = 0
    /\ CleanupCalled
       => /\ Len(knowledge') = Len(knowledge)
          /\ \A i \in DOMAIN knowledge :
                knowledge'[i].confidence * 10 = knowledge[i].confidence * 9

(* C28: no operation writes last_used or usage_count of a fact, and        *)
(* get_knowledge records no use, so last_used stays null for every fact    *)
(* and every cleanup_old_memory call, whatever its days_old, multiplies    *)
(* the confidence of every stored fact by 0.9.                             *)
C28_NeverUsedAlwaysDecayed == [][C28_UseRule]_vars

(* a cleanup_old_memory call with days_old 30 that returned with a fact    *)
(* added this very moment at 0.81 of the confidence 1.0 it was added with  *)
C28_Witness ==
    /\ ret.op = "cleanup_old_memory"
    /\ ret.args[1] = 30
    /\ \E i \in DOMAIN knowledge :
          /\ knowledge[i].created_at = now
          /\ knowledge[i].last_used = Null
          /\ knowledge[i].confidence * 100 = ConfUnit * 81

---------------------------------------------------------------------------
(* C29: when the update_preference calls of two threads for one            *)
(* (user_id, preference_type), made when no row of the key existed, have   *)
(* returned, whatever the interleaving of their SELECTs and their writes,  *)
(* user_preferences holds exactly one row of the key and its strength is   *)
(* not above 1.0.                                                          *)
C29_OneRowAfterConcurrentCalls ==
    (AllReturned /\ ret.op = "update_preference")
    => LET rows == RowsOfKey(user_preferences, ret.args[3], ret.args[1])
       IN  /\ Cardinality(rows) = 1
           /\ \A i \in rows : user_preferences[i].strength <= StrengthCap

---------------------------------------------------------------------------
(* Properties of get_user_profile *)

ProfileCalled == ret'.op = "get_user_profile" /\ now' = now

(* the text begins with the prefix, character for character *)
BeginsWith(text, prefix) ==
    /\ Len(Chars(prefix)) <= Len(Chars(text))
    /\ SubSeq(Chars(text), 1, Len(Chars(prefix))) = Chars(prefix)

(* what one get_user_profile call reports and leaves *)
C30_ProfileRule ==
    ProfileCalled
    => LET user_id == ret'.args[1]
           profile == ret'.value
           wanted == {i \in DOMAIN user_preferences :
                         /\ user_preferences[i].user_id = user_id
                         /\ user_preferences[i].strength > ProfileFloor}
       IN  /\ Range(profile.preferences) =
                  {[preference_type |-> user_preferences[i].preference_type,
                    value |-> user_preferences[i].preference_value,
                    strength |-> user_preferences[i].strength] : i \in wanted}
           /\ profile.statistics.total_conversations =
                  Cardinality({i \in DOMAIN conversations :
                                  BeginsWith(conversations[i].session_id, user_id)})
           /\ UNCHANGED <<conversations, knowledge, user_preferences, sqlite_sequence,
                          vectorizer, vectorizer_pkl>>

(* C30: get_user_profile(user_id) reports exactly the preferences of       *)
(* user_id whose strength is strictly greater than 0.3, its                *)
(* total_conversations is the number of stored turns whose session_id      *)
(* begins with the string user_id, and the call changes no stored state.   *)
C30_ProfileOfUser == [][C30_ProfileRule]_vars

====
